---- MODULE Spec2Model ----
(***************************************************************************)
(* CI-Sage: the GitHub webhook endpoint, the gates of                      *)
(* handle_workflow_run_event, the workflow failure processing pipeline     *)
(* (WorkflowProcessor.process_workflow_failure), the learning store, the   *)
(* error signature hash, AutoFixService.can_auto_fix and the health        *)
(* endpoints.                                                              *)
(*                                                                         *)
(* Conventions.  JSON values and Python strings are TLA+ strings; NULL is  *)
(* JSON null / Python None and MISSING is an absent key.  An HTTP header   *)
(* or a log text is a sequence of tokens / characters.  Optional[int] is   *)
(* None (<<>>) or Some(x) (<<x>>).  A float score is an integer number of  *)
(* hundredths (0.7 is 70).                                                 *)
(***************************************************************************)
EXTENDS Integers, Sequences, FiniteSets, TLC

VARIABLES
    pc,                 \* per delivery: where its coroutine stands
    req,                \* per delivery: the HTTP request received
    resp,               \* per delivery: the HTTP status answered ("" = none yet)
    ctx,                \* per delivery: the locals of process_workflow_failure
    trace,              \* per delivery: calls and returns of external operations
    error_signatures,   \* table error_signatures, in id order
    workflow_analyses,  \* table workflow_analyses, in id order
    sigCalls,           \* history of generate_error_signature calls
    fixCalls,           \* history of AutoFixService.can_auto_fix calls
    httpLog,            \* history of the answers to GET / and GET /health
    learnCalls          \* history of LearningSystem calls made on their own

vars == <<pc, req, resp, ctx, trace, error_signatures, workflow_analyses, sigCalls,
          fixCalls, httpLog, learnCalls>>

-----------------------------------------------------------------------------
(* Values *)

NULL == "null"
MISSING == "missing"
None == <<>>
Some(x) == <<x>>

AllDeliveries == {"d1", "d2"}
\* deliveries served in Spec: one request, followed end to end
Deliveries == {"d1"}

\* dict.get(key, default)
Get(value, default) == IF value = MISSING THEN default ELSE value

\* Python truthiness of the values that occur (None and '' are falsy)
Truthy(v) == v \notin {NULL, ""}

\* str(x)
Str(v) == IF v = NULL THEN "None" ELSE v

-----------------------------------------------------------------------------
(* Webhook signature *)

GITHUB_WEBHOOK_SECRET == "test_secret"

\* A header value is a sequence of pieces, each a literal text or a hex digest.
Text(s) == [text |-> s]

\* hmac.new(key, payload, sha256).hexdigest(): one hex digest per (key, payload)
HmacSha256Hex(key, payload) == [hmac_key |-> key, hmac_msg |-> payload]

\* a piece holding a character outside ASCII
NON_ASCII == Text("\\xe9")

IsAscii(s) == \A i \in 1..Len(s) : s[i] # NON_ASCII

\* str.startswith('sha256=')
StartsWithSha256(signature) == Len(signature) >= 1 /\ signature[1] = Text("sha256=")

\* hmac.compare_digest on two str: TypeError unless both are ASCII
compare_digest(a, b) ==
    IF ~IsAscii(a) \/ ~IsAscii(b) THEN "TypeError"
    ELSE IF a = b THEN "True" ELSE "False"

expected_signature(payload) ==
    <<Text("sha256="), HmacSha256Hex(GITHUB_WEBHOOK_SECRET, payload)>>

verify_webhook_signature(payload, signature) ==
    IF ~StartsWithSha256(signature) THEN "False"
    ELSE compare_digest(signature, expected_signature(payload))

-----------------------------------------------------------------------------
(* Requests *)

NotJsonPayload ==
    [kind |-> "not_json", action |-> MISSING, run_id |-> MISSING, run_name |-> MISSING,
     head_sha |-> MISSING, conclusion |-> MISSING, full_name |-> MISSING,
     installation_id |-> MISSING]

\* valid JSON that is no object (a list, a number, a string)
NonObjectPayload == [NotJsonPayload EXCEPT !.kind = "non_object"]

ObjectPayloads ==
    [kind : {"object"},
     action : {"completed", "requested", MISSING},
     run_id : {"101", MISSING},
     run_name : {"ci", NULL, MISSING},
     head_sha : {"abc123", NULL, MISSING},
     conclusion : {"failure", "cancelled", "success", MISSING},
     full_name : {"o/r", "r", MISSING},
     installation_id : {"7", NULL, MISSING}]

Payloads == {NotJsonPayload, NonObjectPayload} \cup ObjectPayloads

\* the X-Hub-Signature-256 headers tried on a payload ('' when the header is absent)
SignaturesFor(payload) ==
    { <<>>,
      expected_signature(payload),
      <<Text("sha256="), Text("invalid_signature")>>,
      <<Text("sha256="), HmacSha256Hex("other_secret", payload)>>,
      <<Text("sha256="), HmacSha256Hex(GITHUB_WEBHOOK_SECRET, NotJsonPayload)>>,
      <<HmacSha256Hex(GITHUB_WEBHOOK_SECRET, payload)>>,
      <<Text("sha1="), HmacSha256Hex(GITHUB_WEBHOOK_SECRET, payload)>>,
      <<Text("sha256="), NON_ASCII>>,
      expected_signature(payload) \o <<NON_ASCII>> }

EventTypes == {"workflow_run", "push"}

Requests ==
    UNION { [payload : {p}, signature : SignaturesFor(p), event_type : EventTypes]
            : p \in Payloads }

NoRequest == [payload |-> NotJsonPayload, signature |-> <<>>, event_type |-> "none"]

-----------------------------------------------------------------------------
(* handle_workflow_run_event: the gates *)

\* repository_name.split('/', 1)
split(full_name) == IF full_name = "o/r" THEN <<"o", "r">> ELSE <<full_name>>

installation_id_of(p) == Str(Get(p.installation_id, ""))

\* all([workflow_run_id, head_sha, repository_name, installation_id])
RequiredDataPresent(p) ==
    /\ Truthy(Get(p.run_id, NULL))
    /\ Truthy(Get(p.head_sha, ""))
    /\ Truthy(Get(p.full_name, ""))
    /\ Truthy(installation_id_of(p))

\* "process": process_workflow_failure is awaited; "return": an early return;
\* "caught": an exception logged by the handler's except clause;
\* "raise": an exception that leaves the handler
handle_workflow_run_event(p) ==
    IF p.kind # "object" THEN "raise"
    ELSE IF Get(p.action, "") # "completed" THEN "return"
    ELSE IF Get(p.conclusion, "") \notin {"failure", "cancelled"} THEN "return"
    ELSE IF p.head_sha = NULL THEN "caught"
    ELSE IF ~RequiredDataPresent(p) THEN "return"
    ELSE "process"

\* github_webhook up to the call of process_workflow_failure:
\* the status answered, or "process"
WebhookOutcome(r) ==
    LET verified == verify_webhook_signature(r.payload, r.signature) IN
    IF verified = "TypeError" THEN "500"
    ELSE IF verified = "False" THEN "401"
    ELSE IF r.payload.kind = "not_json" THEN "400"
    ELSE IF r.event_type # "workflow_run" THEN "200"
    ELSE LET h == handle_workflow_run_event(r.payload) IN
         IF h = "raise" THEN "500"
         ELSE IF h = "process" THEN "process"
         ELSE "200"

-----------------------------------------------------------------------------
(* Text: logs and error patterns are sequences of characters *)

Min(a, b) == IF a <= b THEN a ELSE b
Max(a, b) == IF a >= b THEN a ELSE b

\* s[:n]
Prefix(s, n) == SubSeq(s, 1, Min(n, Len(s)))

\* hashlib.sha256(content.encode()).hexdigest(): one digest per content
Sha256Hex(content) == [sha256 |-> content]

SIGNATURE_LOG_CHARS == 1000

\* the analyzer object: its fixed model name, and how many signature calls it served
ClaudeAnalyzer(calls) == [model |-> "claude-3-sonnet-20240229", calls |-> calls]

\* a hash salted with the analyzer's state
SaltedSignatureHash(self, logs, error_pattern) ==
    [sha256 |-> Prefix(logs, SIGNATURE_LOG_CHARS) \o error_pattern, salt |-> self.calls]

\* a hash of the logs alone
LogsOnlySignatureHash(self, logs, error_pattern) ==
    Sha256Hex(Prefix(logs, SIGNATURE_LOG_CHARS))

_generate_error_signature_hash(self, logs, error_pattern) ==
    Sha256Hex(Prefix(logs, SIGNATURE_LOG_CHARS) \o error_pattern)

generate_error_signature(self, logs, error_pattern) ==
    _generate_error_signature_hash(self, logs, error_pattern)

-----------------------------------------------------------------------------
(* ClaudeAnalyzer.analyze_workflow_failure *)

\* what the LLM call does: it raises, answers text without a JSON object,
\* or answers a JSON object (confidence_score: absent or a number of hundredths)
LlmOutcomes ==
    [kind : {"raise", "no_json"}, confidence_score : {None},
     can_auto_fix : {FALSE}, auto_fix_patch : {NULL}]
    \cup
    [kind : {"json"}, confidence_score : {None, Some(-20), Some(70), Some(71), Some(150)},
     can_auto_fix : BOOLEAN, auto_fix_patch : {NULL, "", "name: ci"}]

FallbackAnalysis(reason) ==
    [failure_reason |-> <<reason>>,
     confidence_score |-> 10,
     remediation_steps |-> "Review logs manually",
     error_type |-> "unknown",
     can_auto_fix |-> FALSE,
     auto_fix_patch |-> NULL]

\* min(max(score, 0.0), 1.0), 0.5 when the key is absent
ClampConfidence(score) ==
    LET v == IF score = None THEN 50 ELSE score[1] IN Min(Max(v, 0), 100)

analyze_workflow_failure(llm) ==
    IF llm.kind = "raise" THEN FallbackAnalysis("Analysis failed: error")
    ELSE IF llm.kind = "no_json"
    THEN FallbackAnalysis("Analysis failed - unable to parse response")
    ELSE [failure_reason |-> <<"npm install failed">>,
          confidence_score |-> ClampConfidence(llm.confidence_score),
          remediation_steps |-> "Install missing dependency",
          error_type |-> "dependency",
          can_auto_fix |-> llm.can_auto_fix,
          auto_fix_patch |-> llm.auto_fix_patch]

NoAnalysis == FallbackAnalysis("")

-----------------------------------------------------------------------------
(* LearningSystem *)

\* a success rate is a fraction <<successes, attempts>>; 0.0 is <<0, 1>>
DEFAULT_SUCCESS_RATE == <<0, 1>>

\* .filter(signature_hash == h).first(): the index of the row, 0 when there is none
FindSignature(table, h) ==
    IF \E i \in 1..Len(table) : table[i].signature_hash = h
    THEN CHOOSE i \in 1..Len(table) :
            /\ table[i].signature_hash = h
            /\ \A j \in 1..(i - 1) : table[j].signature_hash # h
    ELSE 0

StoreWithoutCounting(table, signature_hash, error_pattern, error_type, confidence_score, remediation_steps, success_rate) ==
    LET i == FindSignature(table, signature_hash) IN
    IF i # 0
    THEN [table EXCEPT
            ![i].confidence_score = Max(@, confidence_score),
            ![i].success_rate = success_rate,
            ![i].remediation_steps = remediation_steps]
    ELSE Append(table,
            [id |-> Len(table) + 1, signature_hash |-> signature_hash,
             error_pattern |-> error_pattern, error_type |-> error_type,
             confidence_score |-> confidence_score,
             remediation_steps |-> remediation_steps,
             success_rate |-> success_rate, occurrence_count |-> 1])

StoreLatestConfidence(table, signature_hash, error_pattern, error_type, confidence_score, remediation_steps, success_rate) ==
    LET i == FindSignature(table, signature_hash) IN
    IF i # 0
    THEN [table EXCEPT
            ![i].occurrence_count = @ + 1,
            ![i].confidence_score = confidence_score,
            ![i].success_rate = success_rate,
            ![i].remediation_steps = remediation_steps]
    ELSE Append(table,
            [id |-> Len(table) + 1, signature_hash |-> signature_hash,
             error_pattern |-> error_pattern, error_type |-> error_type,
             confidence_score |-> confidence_score,
             remediation_steps |-> remediation_steps,
             success_rate |-> success_rate, occurrence_count |-> 1])

StoreAlwaysInserts(table, signature_hash, error_pattern, error_type, confidence_score, remediation_steps, success_rate) ==
    Append(table,
            [id |-> Len(table) + 1, signature_hash |-> signature_hash,
             error_pattern |-> error_pattern, error_type |-> error_type,
             confidence_score |-> confidence_score,
             remediation_steps |-> remediation_steps,
             success_rate |-> success_rate, occurrence_count |-> 1])

\* the table after a successful store_error_signature
store_error_signature(table, signature_hash, error_pattern, error_type, confidence_score, remediation_steps, success_rate) ==
    LET i == FindSignature(table, signature_hash) IN
    IF i # 0
    THEN [table EXCEPT
            ![i].occurrence_count = @ + 1,
            ![i].confidence_score = Max(@, confidence_score),
            ![i].success_rate = success_rate,
            ![i].remediation_steps = remediation_steps]
    ELSE Append(table,
            [id |-> Len(table) + 1,
             signature_hash |-> signature_hash,
             error_pattern |-> error_pattern,
             error_type |-> error_type,
             confidence_score |-> confidence_score,
             remediation_steps |-> remediation_steps,
             success_rate |-> success_rate,
             occurrence_count |-> 1])

\* the id of the row store_error_signature returns
StoredSignatureId(table, signature_hash) ==
    LET i == FindSignature(table, signature_hash) IN
    IF i # 0 THEN table[i].id ELSE Len(table) + 1

\* the row store_workflow_analysis adds: error_signature_id is the method's own
\* parameter, not the field of analysis_data
store_workflow_analysis(table, analysis_data, error_signature_id) ==
    Append(table,
        [id |-> Len(table) + 1,
         workflow_run_id |-> analysis_data.workflow_run_id,
         repository |-> analysis_data.repository,
         workflow_name |-> analysis_data.workflow_name,
         status |-> analysis_data.status,
         failure_reason |-> analysis_data.failure_reason,
         confidence_score |-> analysis_data.confidence_score,
         remediation_steps |-> analysis_data.remediation_steps,
         error_signature_id |-> error_signature_id,
         check_run_id |-> analysis_data.check_run_id,
         issue_id |-> analysis_data.issue_id,
         pr_id |-> analysis_data.pr_id])
RECURSIVE Gcd(_, _)
Gcd(a, b) == IF b = 0 THEN a ELSE Gcd(b, a % b)

\* a fraction in lowest terms, so that equal rates are equal values
Fraction(num, den) == LET g == Gcd(num, den) IN <<num \div g, den \div g>>

\* .filter(ErrorSignature.id == signature_id).first(): the index of the row, 0 when there is none
FindSignatureById(table, signature_id) ==
    IF \E i \in 1..Len(table) : table[i].id = signature_id
    THEN CHOOSE i \in 1..Len(table) : table[i].id = signature_id
    ELSE 0

UpdateRateOverOldAttempts(table, signature_id, success) ==
    LET i == FindSignatureById(table, signature_id) IN
    IF i = 0 THEN table
    ELSE LET total_attempts == table[i].occurrence_count
             rate == table[i].success_rate
             new_successes == rate[1] * total_attempts + (IF success THEN rate[2] ELSE 0)
         IN [table EXCEPT
                ![i].success_rate = Fraction(new_successes, rate[2] * total_attempts),
                ![i].occurrence_count = @ + 1]

\* the table after update_signature_success_rate
update_signature_success_rate(table, signature_id, success) ==
    LET i == FindSignatureById(table, signature_id) IN
    IF i = 0 THEN table
    ELSE LET total_attempts == table[i].occurrence_count
             rate == table[i].success_rate
             \* current_successes (+ 1 if success), as a multiple of 1 / rate[2]
             new_successes == rate[1] * total_attempts + (IF success THEN rate[2] ELSE 0)
         IN [table EXCEPT
                ![i].success_rate = Fraction(new_successes, rate[2] * (total_attempts + 1)),
                ![i].occurrence_count = @ + 1]

\* the filter of get_successful_remediations: error_type matches and success_rate > 0.5
SuccessfulRemediation(row, error_type) ==
    row.error_type = error_type /\ 2 * row.success_rate[1] > row.success_rate[2]

\* the tables a server may start with: empty, or holding a signature learned earlier
KnownLogs == <<"Error: npm install failed">>

KnownSignature ==
    [id |-> 1,
     signature_hash |->
        generate_error_signature(ClaudeAnalyzer(0), KnownLogs, <<"npm install failed">>),
     error_pattern |-> <<"npm install failed">>,
     error_type |-> "dependency",
     confidence_score |-> 80,
     remediation_steps |-> "Pin the dependency",
     success_rate |-> <<3, 4>>,
     occurrence_count |-> 4]

InitialSignatureTables == {<<>>, <<KnownSignature>>}

-----------------------------------------------------------------------------
(* WorkflowProcessor.process_workflow_failure: the order of its steps *)

ISSUE_CONFIDENCE == 70

\* the threshold taken as inclusive
IssueWantedAtThreshold(analysis) == analysis.confidence_score >= ISSUE_CONFIDENCE

\* if analysis_result.confidence_score > 0.7
IssueWanted(analysis) == analysis.confidence_score > ISSUE_CONFIDENCE

\* if analysis_result.can_auto_fix and analysis_result.auto_fix_patch
PatchWanted(analysis) == analysis.can_auto_fix /\ Truthy(analysis.auto_fix_patch)

\* _fetch_workflow_data: owner, repo = repository_name.split('/', 1); a failure is
\* logged, "" is returned for the logs and the pipeline returns
AfterStart(full_name) ==
    IF Len(split(full_name)) # 2 THEN "done" ELSE "get_workflow_run_logs"

\* a failed log fetch tried again
AfterLogsRetry(ok) == IF ok THEN "get_workflow_run_artifacts" ELSE "get_workflow_run_logs"

\* get_workflow_run_logs raised: _fetch_workflow_data returns "", []
AfterLogs(ok) == IF ok THEN "get_workflow_run_artifacts" ELSE "done"

\* the logs process_workflow_failure sees: "" when the artifacts call raised
LogsSeen(ok, logs) == IF ok THEN logs ELSE <<>>

AfterArtifactsAnalyze(logs) == "analyze"

\* if not logs: return
AfterArtifacts(logs) == IF logs = <<>> THEN "done" ELSE "analyze"

AfterAnalyze == "store_signature"

AfterStoreSignature == "create_check_run"

AfterCheckRun(analysis) ==
    IF IssueWanted(analysis) THEN "create_issue" ELSE "store_analysis"

\* the check run created after the issue
AfterIssueCheckRun(ok) == "create_check_run"

\* _create_or_update_issue returns the number, or None when create_issue raised
AfterIssue(ok) == "store_analysis"

AfterStoreAnalysis(analysis) ==
    IF PatchWanted(analysis) THEN "propose_patch" ELSE "done"

\* WorkflowAnalysisData(...): workflow_name: str rejects None
ValidAnalysisData(data) == data.workflow_name # NULL

Call(op) == [ev |-> "call", op |-> op, ok |-> TRUE]
Ret(op, ok) == [ev |-> "ret", op |-> op, ok |-> ok]

NoCtx ==
    [started |-> FALSE,
     logs |-> <<>>,
     llm |-> "none",
     analysis |-> NoAnalysis,
     error_signature_id |-> 0,
     check_run_id |-> None,
     issue_id |-> None,
     stored_row |-> None]

LogTexts == {<<>>, KnownLogs, <<"Error: connection timed out">>}

\* the coroutine continues at `next`; returning from the pipeline ends the
\* handler, and github_webhook answers 200 'processed'
Goto(d, next) ==
    /\ pc' = [pc EXCEPT ![d] = next]
    /\ resp' = [resp EXCEPT ![d] = IF next = "done" THEN "200" ELSE @]

-----------------------------------------------------------------------------
(* Actions *)

Init ==
    /\ pc = [d \in AllDeliveries |-> "idle"]
    /\ req = [d \in AllDeliveries |-> NoRequest]
    /\ resp = [d \in AllDeliveries |-> ""]
    /\ ctx = [d \in AllDeliveries |-> NoCtx]
    /\ trace = [d \in AllDeliveries |-> <<>>]
    /\ error_signatures \in InitialSignatureTables
    /\ workflow_analyses = <<>>
    /\ sigCalls = <<>>
    /\ fixCalls = <<>>
    /\ httpLog = <<>>
    /\ learnCalls = <<>>

\* POST /webhooks/github, up to the first await of the pipeline
github_webhook(d, r) ==
    /\ pc[d] = "idle"
    /\ req' = [req EXCEPT ![d] = r]
    /\ LET out == WebhookOutcome(r) IN
       IF out = "process"
       THEN /\ ctx' = [ctx EXCEPT ![d].started = TRUE]
            /\ Goto(d, AfterStart(Get(r.payload.full_name, "")))
       ELSE /\ ctx' = ctx
            /\ pc' = [pc EXCEPT ![d] = "done"]
            /\ resp' = [resp EXCEPT ![d] = out]
    /\ UNCHANGED <<trace, error_signatures, workflow_analyses, sigCalls, fixCalls, httpLog, learnCalls>>

\* a GitHub API call is sent and awaited
CallGitHub(d, op) ==
    /\ pc[d] = op
    /\ trace' = [trace EXCEPT ![d] = Append(@, Call(op))]
    /\ pc' = [pc EXCEPT ![d] = "await_" \o op]
    /\ UNCHANGED <<req, resp, ctx, error_signatures, workflow_analyses, sigCalls, fixCalls, httpLog, learnCalls>>

ReturnLogs(d, ok, logs) ==
    /\ pc[d] = "await_get_workflow_run_logs"
    /\ trace' = [trace EXCEPT ![d] = Append(@, Ret("get_workflow_run_logs", ok))]
    /\ ctx' = [ctx EXCEPT ![d].logs = LogsSeen(ok, logs)]
    /\ Goto(d, AfterLogs(ok))
    /\ UNCHANGED <<req, error_signatures, workflow_analyses, sigCalls, fixCalls, httpLog, learnCalls>>

ReturnArtifacts(d, ok) ==
    /\ pc[d] = "await_get_workflow_run_artifacts"
    /\ trace' = [trace EXCEPT ![d] = Append(@, Ret("get_workflow_run_artifacts", ok))]
    /\ ctx' = [ctx EXCEPT ![d].logs = LogsSeen(ok, @)]
    /\ Goto(d, AfterArtifacts(LogsSeen(ok, ctx[d].logs)))
    /\ UNCHANGED <<req, error_signatures, workflow_analyses, sigCalls, fixCalls, httpLog, learnCalls>>

\* _analyze_with_claude
Analyze(d, llm) ==
    /\ pc[d] = "analyze"
    /\ trace' = [trace EXCEPT ![d] =
            @ \o <<Call("analyze_workflow_failure"),
                   Ret("analyze_workflow_failure", llm.kind # "raise")>>]
    /\ ctx' = [ctx EXCEPT ![d].llm = llm.kind,
                           ![d].analysis = analyze_workflow_failure(llm)]
    /\ Goto(d, AfterAnalyze)
    /\ UNCHANGED <<req, error_signatures, workflow_analyses, sigCalls, fixCalls, httpLog, learnCalls>>

\* _store_error_signature: a database error is logged and ErrorSignature(id=0) returned
StoreSignature(d, ok) ==
    /\ pc[d] = "store_signature"
    /\ LET a == ctx[d].analysis
           h == generate_error_signature(ClaudeAnalyzer(Len(sigCalls)),
                                         ctx[d].logs, a.failure_reason)
       IN /\ sigCalls' = Append(sigCalls,
                [logs |-> ctx[d].logs, error_pattern |-> a.failure_reason,
                 signature |-> h])
          /\ error_signatures' =
                IF ok
                THEN store_error_signature(error_signatures, h, a.failure_reason,
                        a.error_type, a.confidence_score, a.remediation_steps,
                        DEFAULT_SUCCESS_RATE)
                ELSE error_signatures
          /\ ctx' = [ctx EXCEPT ![d].error_signature_id =
                IF ok THEN StoredSignatureId(error_signatures, h) ELSE 0]
    /\ trace' = [trace EXCEPT ![d] =
            @ \o <<Call("store_error_signature"), Ret("store_error_signature", ok)>>]
    /\ Goto(d, AfterStoreSignature)
    /\ UNCHANGED <<req, workflow_analyses, fixCalls, httpLog, learnCalls>>

\* _create_check_run: a failure is logged and {} returned
ReturnCheckRun(d, ok) ==
    /\ pc[d] = "await_create_check_run"
    /\ trace' = [trace EXCEPT ![d] = Append(@, Ret("create_check_run", ok))]
    /\ ctx' = [ctx EXCEPT ![d].check_run_id = IF ok THEN Some("check-run") ELSE None]
    /\ Goto(d, AfterCheckRun(ctx[d].analysis))
    /\ UNCHANGED <<req, error_signatures, workflow_analyses, sigCalls, fixCalls, httpLog, learnCalls>>

\* _create_or_update_issue
ReturnIssue(d, ok) ==
    /\ pc[d] = "await_create_issue"
    /\ trace' = [trace EXCEPT ![d] = Append(@, Ret("create_issue", ok))]
    /\ ctx' = [ctx EXCEPT ![d].issue_id = IF ok THEN Some("issue") ELSE None]
    /\ Goto(d, AfterIssue(ok))
    /\ UNCHANGED <<req, error_signatures, workflow_analyses, sigCalls, fixCalls, httpLog, learnCalls>>

\* _store_analysis: a validation or database error is logged and swallowed
StoreAnalysis(d, ok) ==
    /\ pc[d] = "store_analysis"
    /\ LET p == req[d].payload
           a == ctx[d].analysis
           analysis_data ==
              [workflow_run_id |-> p.run_id,
               repository |-> p.full_name,
               workflow_name |-> Get(p.run_name, "Unknown"),
               status |-> p.conclusion,
               failure_reason |-> a.failure_reason,
               confidence_score |-> a.confidence_score,
               remediation_steps |-> a.remediation_steps,
               error_signature_id |-> Some(ctx[d].error_signature_id),
               check_run_id |-> ctx[d].check_run_id,
               issue_id |-> ctx[d].issue_id,
               pr_id |-> None]
           valid == ValidAnalysisData(analysis_data)
       IN /\ trace' = [trace EXCEPT ![d] =
                IF valid
                THEN @ \o <<Call("store_workflow_analysis"),
                            Ret("store_workflow_analysis", ok)>>
                ELSE @]
          /\ workflow_analyses' =
                IF valid /\ ok
                THEN store_workflow_analysis(workflow_analyses, analysis_data, None)
                ELSE workflow_analyses
          /\ ctx' = [ctx EXCEPT ![d].stored_row =
                IF valid /\ ok THEN Some(Len(workflow_analyses) + 1) ELSE None]
          /\ Goto(d, AfterStoreAnalysis(a))
    /\ UNCHANGED <<req, error_signatures, sigCalls, fixCalls, httpLog, learnCalls>>

\* _propose_patch: a placeholder that only logs
ProposePatch(d) ==
    /\ pc[d] = "propose_patch"
    /\ trace' = [trace EXCEPT ![d] =
            @ \o <<Call("_propose_patch"), Ret("_propose_patch", TRUE)>>]
    /\ Goto(d, "done")
    /\ UNCHANGED <<req, ctx, error_signatures, workflow_analyses, sigCalls, fixCalls, httpLog, learnCalls>>

GitHubOps ==
    {"get_workflow_run_logs", "get_workflow_run_artifacts", "create_check_run",
     "create_issue"}

Next ==
    \E d \in Deliveries :
        \/ pc[d] = "idle" /\ \E r \in Requests : github_webhook(d, r)
        \/ \E op \in GitHubOps : CallGitHub(d, op)
        \/ \E ok \in BOOLEAN, logs \in LogTexts :
                (ok \/ logs = <<>>) /\ ReturnLogs(d, ok, logs)
        \/ \E ok \in BOOLEAN : ReturnArtifacts(d, ok)
        \/ \E llm \in LlmOutcomes : Analyze(d, llm)
        \/ \E ok \in BOOLEAN : StoreSignature(d, ok)
        \/ \E ok \in BOOLEAN : ReturnCheckRun(d, ok)
        \/ \E ok \in BOOLEAN : ReturnIssue(d, ok)
        \/ \E ok \in BOOLEAN : StoreAnalysis(d, ok)
        \/ ProposePatch(d)

Spec == Init /\ [][Next]_vars

-----------------------------------------------------------------------------
(* generate_error_signature called on its own, as the tests call it *)

MaxSigCalls == 2

ShortTexts == {<<>>, <<"a">>, <<"b">>, <<"a", "b">>}

\* logs as long as the hashed prefix
FullPrefixLogs == [i \in 1..SIGNATURE_LOG_CHARS |-> "a"]

LongLogs ==
    {FullPrefixLogs \o <<"a">>,
     FullPrefixLogs \o <<"b">>,
     [FullPrefixLogs EXCEPT ![SIGNATURE_LOG_CHARS] = "b"] \o <<"a">>}

SigLogs == ShortTexts \cup LongLogs
SigPatterns == {<<>>, <<"a">>, <<"b">>}

GenerateSignature(logs, error_pattern) ==
    /\ Len(sigCalls) < MaxSigCalls
    /\ sigCalls' = Append(sigCalls,
            [logs |-> logs, error_pattern |-> error_pattern,
             signature |-> generate_error_signature(ClaudeAnalyzer(Len(sigCalls)),
                                                    logs, error_pattern)])
    /\ UNCHANGED <<pc, req, resp, ctx, trace, error_signatures, workflow_analyses, fixCalls, httpLog, learnCalls>>

NextSig ==
    \E logs \in SigLogs, error_pattern \in SigPatterns :
        GenerateSignature(logs, error_pattern)

\* a fresh analyzer and an empty store
InitSig == Init /\ error_signatures = <<>>

SpecSig == InitSig /\ [][NextSig]_vars

-----------------------------------------------------------------------------
(* AutoFixService.can_auto_fix called on its own, as the tests call it *)

MaxFixCalls == 2

\* confidence_score > 0.8
AUTO_FIX_CONFIDENCE == 80

auto_fixable_types == {"dependency", "permission", "timeout", "configuration"}

CanAutoFixAtThreshold(error_type, confidence_score) ==
    error_type \in auto_fixable_types /\ confidence_score >= AUTO_FIX_CONFIDENCE

can_auto_fix(error_type, confidence_score) ==
    error_type \in auto_fixable_types /\ confidence_score > AUTO_FIX_CONFIDENCE

FixErrorTypes == auto_fixable_types \cup {"unknown", "network"}
FixConfidences == {0, 50, 80, 81, 90, 100}

CanAutoFix(error_type, confidence_score) ==
    /\ Len(fixCalls) < MaxFixCalls
    /\ fixCalls' = Append(fixCalls,
            [error_type |-> error_type, confidence_score |-> confidence_score,
             result |-> can_auto_fix(error_type, confidence_score)])
    /\ UNCHANGED <<pc, req, resp, ctx, trace, error_signatures, workflow_analyses, sigCalls, httpLog, learnCalls>>

NextFix ==
    \E error_type \in FixErrorTypes, confidence_score \in FixConfidences :
        CanAutoFix(error_type, confidence_score)

SpecFix == Init /\ [][NextFix]_vars

-----------------------------------------------------------------------------
(* app.main: GET / and GET /health *)

MaxHttpRequests == 3

\* the settings the process was started with: is_production requires a real key
SettingsChoices ==
    {st \in [has_real_claude_key : BOOLEAN, is_production : BOOLEAN] :
        st.is_production => st.has_real_claude_key}

root == [code |-> "200", status |-> "healthy", version |-> "1.0.0"]

HealthCheckAlwaysHealthy(db_up, settings) == [code |-> "200", status |-> "healthy", version |-> "1.0.0"]

\* db_up: engine.connect() and SELECT 1 succeed
health_check(db_up, settings) ==
    [code |-> "200",
     status |-> IF db_up THEN "healthy" ELSE "degraded",
     version |-> "1.0.0",
     database |-> IF db_up THEN "healthy" ELSE "unhealthy",
     claude |-> IF settings.has_real_claude_key THEN "configured" ELSE "test_mode",
     github_app |-> IF settings.is_production THEN "configured" ELSE "test_mode"]

Answer(path, db_up, response) ==
    /\ Len(httpLog) < MaxHttpRequests
    /\ httpLog' = Append(httpLog, [path |-> path, db_up |-> db_up, response |-> response])
    /\ UNCHANGED <<pc, req, resp, ctx, trace, error_signatures, workflow_analyses, sigCalls, fixCalls, learnCalls>>

GetRoot(db_up) == Answer("/", db_up, root)

GetHealth(db_up, settings) == Answer("/health", db_up, health_check(db_up, settings))

NextHttp ==
    \E db_up \in BOOLEAN :
        \/ GetRoot(db_up)
        \/ \E settings \in SettingsChoices : GetHealth(db_up, settings)

SpecHttp == Init /\ [][NextHttp]_vars

-----------------------------------------------------------------------------
(* LearningSystem called on its own: store_error_signature with the default *)
(* success_rate, as _store_error_signature calls it, and                    *)
(* update_signature_success_rate                                            *)

MaxLearnCalls == 4

LearnHashes == {Sha256Hex(<<"a">>), Sha256Hex(<<"b">>)}

\* what two analyses of the same failure may report
LearnReports ==
    {[error_pattern |-> <<"npm install failed">>, error_type |-> "dependency",
      confidence_score |-> 90, remediation_steps |-> "Install missing dependency"],
     [error_pattern |-> <<"step timed out">>, error_type |-> "timeout",
      confidence_score |-> 50, remediation_steps |-> "Raise the timeout"]}

\* ids of rows that may exist, and one that never does
LearnIds == {1, 2, 3}

LearnCall(entry, table) ==
    /\ Len(learnCalls) < MaxLearnCalls
    /\ learnCalls' = Append(learnCalls,
            [call |-> entry, before |-> error_signatures, after |-> table])
    /\ error_signatures' = table
    /\ UNCHANGED <<pc, req, resp, ctx, trace, workflow_analyses, sigCalls, fixCalls, httpLog>>

StoreErrorSignature(signature_hash, report) ==
    LearnCall([op |-> "store_error_signature", signature_hash |-> signature_hash,
               report |-> report],
              store_error_signature(error_signatures, signature_hash,
                    report.error_pattern, report.error_type, report.confidence_score,
                    report.remediation_steps, DEFAULT_SUCCESS_RATE))

UpdateSignatureSuccessRate(signature_id, success) ==
    LearnCall([op |-> "update_signature_success_rate", signature_id |-> signature_id,
               success |-> success],
              update_signature_success_rate(error_signatures, signature_id, success))

NextLearn ==
    \/ \E signature_hash \in LearnHashes, report \in LearnReports :
            StoreErrorSignature(signature_hash, report)
    \/ \E signature_id \in LearnIds, success \in BOOLEAN :
            UpdateSignatureSuccessRate(signature_id, success)

\* an empty store
InitLearn == Init /\ error_signatures = <<>>

SpecLearn == InitLearn /\ [][NextLearn]_vars

-----------------------------------------------------------------------------
(* Two deliveries served concurrently by one process: the coroutines        *)
(* interleave at the steps of the pipeline; store_error_signature has no     *)
(* await inside, so each store is one step                                   *)

\* a verified delivery of a failed run that passes every gate
FailedRunPayload ==
    [kind |-> "object", action |-> "completed", run_id |-> "101", run_name |-> "ci",
     head_sha |-> "abc123", conclusion |-> "failure", full_name |-> "o/r",
     installation_id |-> "7"]

FailedRunRequest ==
    [payload |-> FailedRunPayload, signature |-> expected_signature(FailedRunPayload),
     event_type |-> "workflow_run"]

\* the LLM raises, or answers a JSON object with confidence 0.7 or 0.71
ConcurrentLlmOutcomes ==
    {llm \in LlmOutcomes :
        \/ llm.kind = "raise"
        \/ /\ llm.kind = "json"
           /\ llm.confidence_score \in {Some(70), Some(71)}
           /\ ~llm.can_auto_fix
           /\ llm.auto_fix_patch = NULL}

NextConcurrent ==
    \E d \in AllDeliveries :
        \/ github_webhook(d, FailedRunRequest)
        \/ \E op \in GitHubOps : CallGitHub(d, op)
        \/ \E ok \in BOOLEAN : ReturnLogs(d, ok, LogsSeen(ok, KnownLogs))
        \/ \E ok \in BOOLEAN : ReturnArtifacts(d, ok)
        \/ \E llm \in ConcurrentLlmOutcomes : Analyze(d, llm)
        \/ \E ok \in BOOLEAN : StoreSignature(d, ok)
        \/ \E ok \in BOOLEAN : ReturnCheckRun(d, ok)
        \/ \E ok \in BOOLEAN : ReturnIssue(d, ok)
        \/ \E ok \in BOOLEAN : StoreAnalysis(d, ok)

\* an empty store
InitConcurrent == Init /\ error_signatures = <<>>

SpecConcurrent == InitConcurrent /\ [][NextConcurrent]_vars

-----------------------------------------------------------------------------
(* Properties *)

Called(d, op) == \E i \in 1..Len(trace[d]) : trace[d][i] = Call(op)

Calls(d, op) == Cardinality({i \in 1..Len(trace[d]) : trace[d][i] = Call(op)})

Failed(d, op) == \E i \in 1..Len(trace[d]) : trace[d][i] = Ret(op, FALSE)

Verified(d) == verify_webhook_signature(req[d].payload, req[d].signature)

\* nothing was fetched, analysed, created on GitHub or written to the database
NothingHandled(d) ==
    /\ trace[d] = <<>>
    /\ ~ctx[d].started
    /\ workflow_analyses = <<>>
    /\ error_signatures \in InitialSignatureTables

\* C1: a request whose signature does not verify is answered 401 and nothing is
\* handled for it
C1_UnverifiedAnswered401 ==
    \A d \in AllDeliveries :
        (pc[d] = "done" /\ Verified(d) # "True")
            => (resp[d] = "401" /\ NothingHandled(d))

\* the part of C1 that the code keeps: no handling without a verified signature
UnverifiedHandlesNothing ==
    \A d \in AllDeliveries :
        (pc[d] = "done" /\ Verified(d) # "True")
            => (resp[d] \in {"401", "500"} /\ NothingHandled(d))

\* C2: verify_webhook_signature returns True exactly for 'sha256=' followed by the
\* hex HMAC-SHA256 of the payload under the webhook secret, and False for every
\* other signature
C2_VerifyIsEqualityTest ==
    \A d \in AllDeliveries :
        pc[d] = "done" =>
            Verified(d) =
                IF req[d].signature =
                      <<Text("sha256="),
                        HmacSha256Hex(GITHUB_WEBHOOK_SECRET, req[d].payload)>>
                THEN "True" ELSE "False"

Present(v) == v \notin {MISSING, NULL, ""}

\* C3: the pipeline starts only for a completed workflow_run event that failed or
\* was cancelled and carries run id, head sha, repository name and installation
\* id; for every other delivery nothing is handled
C3_PipelineGate ==
    \A d \in AllDeliveries :
        LET p == req[d].payload IN
        /\ ctx[d].started =>
              /\ req[d].event_type = "workflow_run"
              /\ p.action = "completed"
              /\ p.conclusion \in {"failure", "cancelled"}
              /\ Present(p.run_id)
              /\ Present(p.head_sha)
              /\ Present(p.full_name)
              /\ Present(p.installation_id)
        /\ ~ctx[d].started => NothingHandled(d)

PastIssueStep(d) ==
    /\ Called(d, "analyze_workflow_failure")
    /\ pc[d] \in {"store_analysis", "propose_patch", "done"}

StoredRows(d) ==
    {workflow_analyses[i] : i \in {j \in 1..Len(workflow_analyses) : ctx[d].stored_row = Some(j)}}

\* C4: create_issue is called if and only if the confidence is above 0.7; at 0.7
\* or below no issue is created and the stored analysis has issue_id null
C4_IssueIffConfident ==
    \A d \in AllDeliveries :
        /\ Called(d, "create_issue") => ctx[d].analysis.confidence_score > ISSUE_CONFIDENCE
        /\ PastIssueStep(d) =>
              /\ Called(d, "create_issue") <=>
                    ctx[d].analysis.confidence_score > ISSUE_CONFIDENCE
              /\ ctx[d].analysis.confidence_score <= ISSUE_CONFIDENCE =>
                    /\ ctx[d].issue_id = None
                    /\ \A row \in StoredRows(d) : row.issue_id = None

C4_Witness ==
    /\ pc["d1"] = "done"
    /\ ctx["d1"].analysis.confidence_score = ISSUE_CONFIDENCE
    /\ ~Called("d1", "create_issue")
    /\ StoredRows("d1") # {}

SingleAttemptOps ==
    {"get_workflow_run_logs", "get_workflow_run_artifacts", "analyze_workflow_failure",
     "store_error_signature", "create_check_run", "create_issue",
     "store_workflow_analysis"}

\* C5: in one run every external operation is invoked at most once, also after
\* failures
C5_SingleAttempt ==
    \A d \in AllDeliveries : \A op \in SingleAttemptOps : Calls(d, op) <= 1

C5_Witness ==
    /\ pc["d1"] = "done"
    /\ \A op \in SingleAttemptOps : Calls("d1", op) = 1
    /\ Failed("d1", "create_check_run")
    /\ Failed("d1", "create_issue")
    /\ Failed("d1", "store_error_signature")

C5_WitnessFetchFailed ==
    /\ pc["d1"] = "done"
    /\ Failed("d1", "get_workflow_run_logs")
    /\ Calls("d1", "get_workflow_run_logs") = 1

StepRank(op) ==
    CASE op = "get_workflow_run_logs" -> 1
      [] op = "get_workflow_run_artifacts" -> 2
      [] op = "analyze_workflow_failure" -> 3
      [] op = "store_error_signature" -> 4
      [] op = "create_check_run" -> 5
      [] op = "create_issue" -> 6
      [] op = "store_workflow_analysis" -> 7
      [] op = "_propose_patch" -> 8

\* C6: the steps of a run occur in the fixed order, a step starts only after the
\* step before it has returned, and no step is entered twice
C6_LinearOrder ==
    \A d \in AllDeliveries :
        LET t == trace[d] IN
        \A i \in 1..Len(t) :
            /\ t[i].ev = "ret" => (i > 1 /\ t[i - 1] = Call(t[i].op))
            /\ t[i].ev = "call" =>
                  /\ i > 1 => t[i - 1].ev = "ret"
                  /\ \A j \in 1..(i - 1) : StepRank(t[j].op) < StepRank(t[i].op)

C6_Witness ==
    /\ pc["d1"] = "done"
    /\ Len(trace["d1"]) = 16
    /\ \A op \in SingleAttemptOps \cup {"_propose_patch"} : Called("d1", op)

\* C7: a delivery that passed the gates and whose logs were fetched persists
\* exactly one WorkflowAnalysis row with the run's data and the analysis result,
\* unless the database write fails
C7_AnalysisPersisted ==
    \A d \in AllDeliveries :
        (/\ pc[d] = "done"
         /\ Called(d, "analyze_workflow_failure")
         /\ ~Failed(d, "store_workflow_analysis"))
        => /\ Cardinality(StoredRows(d)) = 1
           /\ \A row \in StoredRows(d) :
                /\ row.workflow_run_id = req[d].payload.run_id
                /\ row.repository = req[d].payload.full_name
                /\ row.workflow_name = Get(req[d].payload.run_name, "Unknown")
                /\ row.status = req[d].payload.conclusion
                /\ row.failure_reason = ctx[d].analysis.failure_reason
                /\ row.confidence_score = ctx[d].analysis.confidence_score
                /\ row.remediation_steps = ctx[d].analysis.remediation_steps

\* the part of C7 that the code keeps: the row is persisted when the run has a name
AnalysisPersistedForNamedRun ==
    \A d \in AllDeliveries :
        (/\ pc[d] = "done"
         /\ Called(d, "analyze_workflow_failure")
         /\ ~Failed(d, "store_workflow_analysis")
         /\ req[d].payload.run_name # NULL)
        => /\ Cardinality(StoredRows(d)) = 1
           /\ Len(workflow_analyses) = 1
           /\ \A row \in StoredRows(d) :
                /\ row.workflow_run_id = req[d].payload.run_id
                /\ row.status = req[d].payload.conclusion
                /\ row.failure_reason = ctx[d].analysis.failure_reason

\* C8: an auto-fixable analysis leads to a pull request on GitHub
C8_AutoFixCreatesPullRequest ==
    \A d \in AllDeliveries :
        (/\ pc[d] = "done"
         /\ Called(d, "analyze_workflow_failure")
         /\ ctx[d].analysis.can_auto_fix
         /\ ctx[d].analysis.auto_fix_patch \notin {NULL, ""})
        => Called(d, "create_pull_request")

SameInput(a, b) == a.logs = b.logs /\ a.error_pattern = b.error_pattern

\* C9: two calls of generate_error_signature on the same (logs, error_pattern)
\* return the same signature, whatever calls came before
C9_SignatureDeterministic ==
    \A i, j \in 1..Len(sigCalls) :
        SameInput(sigCalls[i], sigCalls[j])
            => sigCalls[i].signature = sigCalls[j].signature

C9_Witness ==
    /\ Len(sigCalls) = 2
    /\ SameInput(sigCalls[1], sigCalls[2])
    /\ sigCalls[1].logs = FullPrefixLogs \o <<"b">>

FirstChars(s, n) == [i \in 1..(IF Len(s) < n THEN Len(s) ELSE n) |-> s[i]]

C11_CanAutoFixExactly ==
    \A i \in 1..Len(fixCalls) :
        fixCalls[i].result =
            (/\ fixCalls[i].error_type \in
                    {"dependency", "permission", "timeout", "configuration"}
             /\ fixCalls[i].confidence_score > 80)

\* a listed type was refused at exactly 0.8 and accepted just above it
C11_Witness ==
    /\ Len(fixCalls) = 2
    /\ fixCalls[1].error_type = "timeout" /\ fixCalls[1].confidence_score = 80
    /\ ~fixCalls[1].result
    /\ fixCalls[2].error_type = "timeout" /\ fixCalls[2].confidence_score = 81
    /\ fixCalls[2].result

ValidJson(d) == req[d].payload.kind # "not_json"

\* C12: a verified workflow_run delivery is answered 200 'processed' whatever
\* happens while it is handled: no exception leaves handle_workflow_run_event
C12_VerifiedWorkflowRunAnswered200 ==
    \A d \in AllDeliveries :
        (/\ pc[d] = "done"
         /\ Verified(d) = "True"
         /\ ValidJson(d)
         /\ req[d].event_type = "workflow_run")
            => resp[d] = "200"

\* the part of C12 that the code keeps: once process_workflow_failure has been
\* entered the delivery is answered 200, whichever steps failed
StartedPipelineAnswered200 ==
    \A d \in AllDeliveries :
        (pc[d] = "done" /\ ctx[d].started) => resp[d] = "200"

FetchOps == {"get_workflow_run_logs", "get_workflow_run_artifacts"}

FetchSteps == FetchOps \cup {"await_" \o op : op \in FetchOps}

\* the fetch step is over and has produced no logs
NoLogsObtained(d) == ctx[d].started /\ ctx[d].logs = <<>> /\ pc[d] \notin FetchSteps

\* C13: when the fetch step yields no logs (an empty string, or a fetch that
\* raised) the run stops there: no analysis is requested, no signature and no
\* analysis row is written, no check run and no issue is created
C13_NoLogsStopsPipeline ==
    \A d \in AllDeliveries :
        NoLogsObtained(d) =>
            /\ pc[d] = "done"
            /\ \A i \in 1..Len(trace[d]) : trace[d][i].op \in FetchOps
            /\ ctx[d].stored_row = None
            /\ workflow_analyses = <<>>
            /\ error_signatures \in InitialSignatureTables

\* get_workflow_run_logs returned an empty string
C13_Witness ==
    /\ NoLogsObtained("d1")
    /\ trace["d1"] = <<Call("get_workflow_run_logs"), Ret("get_workflow_run_logs", TRUE),
                       Call("get_workflow_run_artifacts"),
                       Ret("get_workflow_run_artifacts", TRUE)>>

\* the fetch of the logs raised
C13_WitnessFetchRaised ==
    /\ NoLogsObtained("d1")
    /\ Failed("d1", "get_workflow_run_logs")

SignatureValid(d) == req[d].signature = expected_signature(req[d].payload)

\* C14: every webhook request ends with 401 when its signature is invalid, 400
\* when the signature is valid and the body is not JSON, 200 when signature and
\* JSON are valid; no request is answered 500 because of its signature or of
\* the handling of its event
C14_FourOutcomes ==
    \A d \in AllDeliveries :
        pc[d] = "done" =>
            resp[d] = IF ~SignatureValid(d) THEN "401"
                      ELSE IF ~ValidJson(d) THEN "400"
                      ELSE "200"

\* the parts of C14 that the code keeps: one answer out of the four, the
\* signature is judged before the body is parsed, and 400 and 200 are given
\* only to verified requests
SignatureJudgedBeforeJson ==
    \A d \in AllDeliveries :
        pc[d] = "done" =>
            /\ resp[d] \in {"401", "400", "200", "500"}
            /\ ~SignatureValid(d) => resp[d] \in {"401", "500"}
            /\ resp[d] = "400" <=> (SignatureValid(d) /\ ~ValidJson(d))
            /\ resp[d] = "200" => (SignatureValid(d) /\ ValidJson(d))

\* C15: GET /health is always answered 200 with status 'healthy', and so is GET /
C15_AlwaysHealthy ==
    \A i \in 1..Len(httpLog) :
        httpLog[i].response.code = "200" /\ httpLog[i].response.status = "healthy"

\* C15 as the code has it: both are always answered 200; GET / always says
\* 'healthy', GET /health says 'healthy' when the database answers and
\* 'degraded' when it does not
C15_HealthyIffDatabaseUp ==
    \A i \in 1..Len(httpLog) :
        /\ httpLog[i].response.code = "200"
        /\ httpLog[i].path = "/" => httpLog[i].response.status = "healthy"
        /\ httpLog[i].path = "/health" =>
              httpLog[i].response.status =
                  IF httpLog[i].db_up THEN "healthy" ELSE "degraded"

\* with the database down, GET /health said 'degraded' and GET / said 'healthy'
C15_Witness ==
    /\ Len(httpLog) = 2
    /\ httpLog[1].path = "/health" /\ ~httpLog[1].db_up
    /\ httpLog[1].response.status = "degraded"
    /\ httpLog[2].path = "/" /\ ~httpLog[2].db_up
    /\ httpLog[2].response.status = "healthy"

\* C16: the WorkflowAnalysis row stored by a run carries, as error_signature_id,
\* the id of the ErrorSignature that _store_error_signature returned in that run
C16_RowLinksSignature ==
    \A d \in AllDeliveries :
        \A row \in StoredRows(d) :
            row.error_signature_id = Some(ctx[d].error_signature_id)

\* what the code stores: the id reaches WorkflowAnalysisData but not the row
RowSignatureIdIsNone ==
    \A d \in AllDeliveries :
        \A row \in StoredRows(d) : row.error_signature_id = None

StoreEntries == {i \in 1..Len(learnCalls) : learnCalls[i].call.op = "store_error_signature"}

UpdateEntries == {i \in 1..Len(learnCalls) : learnCalls[i].call.op = "update_signature_success_rate"}

StoresOf(h) == {i \in StoreEntries : learnCalls[i].call.signature_hash = h}

RowsOf(table, h) == {j \in 1..Len(table) : table[j].signature_hash = h}

FirstStoreOf(h) == CHOOSE i \in StoresOf(h) : \A k \in StoresOf(h) : i <= k

\* C17: after any sequence of successful store_error_signature calls there is
\* exactly one row per distinct hash stored, its occurrence_count is the number
\* of calls made with that hash (1 after the creating call, 1 more after each
\* later one), and its error_pattern and error_type are those of the first call
C17_OneRowPerHashCounted ==
    /\ \A h \in LearnHashes :
          Cardinality(RowsOf(error_signatures, h)) = IF StoresOf(h) = {} THEN 0 ELSE 1
    /\ \A j \in 1..Len(error_signatures) :
          LET row == error_signatures[j]
              first == learnCalls[FirstStoreOf(row.signature_hash)]
          IN /\ row.error_pattern = first.call.report.error_pattern
             /\ row.error_type = first.call.report.error_type
             /\ UpdateEntries = {} =>
                    row.occurrence_count = Cardinality(StoresOf(row.signature_hash))
    /\ \A i \in StoreEntries :
          LET e == learnCalls[i]
              j == FindSignature(e.before, e.call.signature_hash)
              k == FindSignature(e.after, e.call.signature_hash)
          IN /\ k # 0
             /\ e.after[k].occurrence_count =
                    IF j = 0 THEN 1 ELSE e.before[j].occurrence_count + 1

\* one hash stored three times with differing reports, another stored once
C17_Witness ==
    /\ UpdateEntries = {}
    /\ Len(error_signatures) = 2
    /\ error_signatures[1].occurrence_count = 3
    /\ error_signatures[1].error_type = "dependency"
    /\ learnCalls[4].call.signature_hash = error_signatures[1].signature_hash
    /\ learnCalls[4].call.report.error_type = "timeout"
    /\ error_signatures[2].occurrence_count = 1

C19_SuccessRateSurvivesStore ==
    \A i \in StoreEntries :
        LET e == learnCalls[i]
            j == FindSignature(e.before, e.call.signature_hash)
        IN j # 0 =>
              /\ e.after[j].success_rate = e.before[j].success_rate
              /\ SuccessfulRemediation(e.before[j], e.before[j].error_type) =>
                    SuccessfulRemediation(e.after[j], e.after[j].error_type)

\* what the code does: every store leaves the row with the success_rate passed,
\* which is the 0.0 default
StoreResetsSuccessRate ==
    \A i \in StoreEntries :
        LET e == learnCalls[i]
            k == FindSignature(e.after, e.call.signature_hash)
        IN e.after[k].success_rate = DEFAULT_SUCCESS_RATE

\* C20: success_rate stays within [0, 1] and occurrence_count at 1 or more; an
\* update of an existing signature sets success_rate to
\* (success_rate * occurrence_count + (1 if success else 0)) / (occurrence_count + 1)
\* and adds exactly 1 to occurrence_count, changing nothing else; an update of
\* an unknown id changes nothing
C20_SuccessRateArithmetic ==
    /\ \A j \in 1..Len(error_signatures) :
          LET row == error_signatures[j] IN
          /\ row.success_rate[2] > 0
          /\ 0 <= row.success_rate[1]
          /\ row.success_rate[1] <= row.success_rate[2]
          /\ row.occurrence_count >= 1
    /\ \A i \in UpdateEntries :
          LET e == learnCalls[i]
              known == {j \in 1..Len(e.before) : e.before[j].id = e.call.signature_id}
          IN /\ known = {} => e.after = e.before
             /\ Len(e.after) = Len(e.before)
             /\ \A j \in 1..Len(e.before) :
                   IF j \in known
                   THEN LET old == e.before[j]
                            new == e.after[j]
                            gained == IF e.call.success THEN 1 ELSE 0
                        IN \* new rate = (old rate * n + gained) / (n + 1), cross-multiplied
                           /\ new.success_rate[1] * old.success_rate[2] * (old.occurrence_count + 1)
                                 = new.success_rate[2]
                                     * (old.success_rate[1] * old.occurrence_count
                                            + gained * old.success_rate[2])
                           /\ new.occurrence_count = old.occurrence_count + 1
                           /\ [new EXCEPT !.success_rate = old.success_rate,
                                          !.occurrence_count = old.occurrence_count] = old
                   ELSE e.after[j] = e.before[j]

\* a stored signature was updated with a success, a failure and a success:
\* 0 -> 1/2 -> 1/3 -> 1/2, ending with occurrence_count 4
C20_Witness ==
    /\ Len(learnCalls) = 4
    /\ UpdateEntries = {2, 3, 4}
    /\ learnCalls[2].call.success /\ ~learnCalls[3].call.success /\ learnCalls[4].call.success
    /\ Len(error_signatures) = 1
    /\ error_signatures[1].success_rate = <<1, 2>>
    /\ error_signatures[1].occurrence_count = 4

\* an update of an id that has no row
C20_WitnessUnknownId ==
    /\ Len(learnCalls) = 2
    /\ learnCalls[2].call.op = "update_signature_success_rate"
    /\ learnCalls[2].call.signature_id = 3
    /\ learnCalls[2].before # <<>>

\* the LLM call raised or answered without a JSON object
LlmGaveNoJson(d) == ctx[d].llm \in {"raise", "no_json"}

\* C21: when the LLM call raises or answers no parsable JSON object the analysis
\* is the fallback (confidence 0.1, error_type 'unknown', can_auto_fix False,
\* auto_fix_patch None); a run with a fallback analysis creates no issue and
\* proposes no patch, and still creates the check run and stores the analysis
\* row (unless the database write fails)
C21_FallbackRun ==
    \A d \in AllDeliveries :
        LlmGaveNoJson(d) =>
            /\ ctx[d].analysis.confidence_score = 10
            /\ ctx[d].analysis.error_type = "unknown"
            /\ ~ctx[d].analysis.can_auto_fix
            /\ ctx[d].analysis.auto_fix_patch = NULL
            /\ ~Called(d, "create_issue")
            /\ ~Called(d, "_propose_patch")
            /\ pc[d] = "done" =>
                  /\ Called(d, "create_check_run")
                  /\ ~Failed(d, "store_workflow_analysis") =>
                        Cardinality(StoredRows(d)) = 1

\* the part of C21 that the code keeps: the fallback values, no issue, no
\* patch, the check run requested, and the row stored when the run has a name
FallbackRunForNamedRun ==
    \A d \in AllDeliveries :
        LlmGaveNoJson(d) =>
            /\ ctx[d].analysis.confidence_score = 10
            /\ ctx[d].analysis.error_type = "unknown"
            /\ ~ctx[d].analysis.can_auto_fix
            /\ ctx[d].analysis.auto_fix_patch = NULL
            /\ ~Called(d, "create_issue")
            /\ ~Called(d, "_propose_patch")
            /\ pc[d] = "done" =>
                  /\ Called(d, "create_check_run")
                  /\ (/\ ~Failed(d, "store_workflow_analysis")
                      /\ req[d].payload.run_name # NULL) =>
                        Cardinality(StoredRows(d)) = 1

\* a fallback run of a named workflow ended with check run and stored row
FallbackRunReached ==
    /\ pc["d1"] = "done"
    /\ ctx["d1"].llm = "no_json"
    /\ ~Failed("d1", "create_check_run")
    /\ StoredRows("d1") # {}

\* the signature store of the run has been executed and committed
StoreExecuted(d) ==
    \E i \in 1..Len(trace[d]) : trace[d][i] = Ret("store_error_signature", TRUE)

\* the signature_hash the run produces
RunHash(d) ==
    generate_error_signature(ClaudeAnalyzer(0), ctx[d].logs, ctx[d].analysis.failure_reason)

RunsStoring(h) == {d \in AllDeliveries : StoreExecuted(d) /\ RunHash(d) = h}

\* C22: however concurrent runs interleave, the error_signatures table holds
\* exactly one row for each hash stored, the row's occurrence_count is the
\* number of runs that executed the store step with that hash, and every such
\* run got the row back (its store did not fail on the other run's row)
C22_NoStoreContention ==
    /\ \A j \in 1..Len(error_signatures) :
          LET row == error_signatures[j] IN
          /\ \A k \in 1..Len(error_signatures) :
                error_signatures[k].signature_hash = row.signature_hash => k = j
          /\ row.occurrence_count = Cardinality(RunsStoring(row.signature_hash))
    /\ \A d \in AllDeliveries :
          StoreExecuted(d) =>
              /\ Cardinality(RowsOf(error_signatures, RunHash(d))) = 1
              /\ \A j \in RowsOf(error_signatures, RunHash(d)) :
                    ctx[d].error_signature_id = error_signatures[j].id

\* two runs that overlapped produced the same hash and both stored it: the
\* second to reach its check run call found the first still awaiting its own
C22_Witness ==
    /\ pc["d1"] = "await_create_check_run"
    /\ pc["d2"] = "await_create_check_run"
    /\ RunsStoring(RunHash("d1")) = {"d1", "d2"}
    /\ Len(error_signatures) = 1
    /\ error_signatures[1].occurrence_count = 2

\* both runs ended, having stored different hashes
C22_WitnessTwoHashes ==
    /\ pc["d1"] = "done" /\ pc["d2"] = "done"
    /\ StoreExecuted("d1") /\ StoreExecuted("d2")
    /\ RunHash("d1") # RunHash("d2")
    /\ Len(error_signatures) = 2

====
